---------------------------- MODULE Spec2Model ----------------------------
(***************************************************************************)
(* The direct-S3-access notebook                                           *)
(*   how-tos/Earthdata_Cloud__Single_File__Direct_S3_Access_COG_Example    *)
(* as a state machine.  One action per code cell, executed top to bottom   *)
(* by the kernel; an exception raised by a cell stops the run.             *)
(*                                                                         *)
(* The outside world (the credential endpoint, S3, the renderer) is a      *)
(* nondeterministic input of the cell that talks to it.                    *)
(***************************************************************************)
EXTENDS Integers, Sequences, FiniteSets, TLC

VARIABLES
    pc,             \* the next code cell of the notebook
    exception,      \* the exception that stopped the run, or NoException
    provider,       \* the argument of the get_temp_creds call
    requests_log,   \* URLs an HTTP GET was issued to, in order
    response,       \* what requests.get returned (None before / on failure)
    temp_creds_req, \* notebook variable temp_creds_req
    session,        \* notebook variable session (boto3.Session)
    rio_env,        \* notebook variable rio_env (rasterio.Env object)
    gdal_env,       \* process-wide stack of entered rasterio environments
    s3_url,         \* notebook variable s3_url
    opened_with,    \* the ambient environment open_rasterio read, if it ran
    da,             \* notebook variable da
    da_red,         \* notebook variable da_red
    plot,           \* the image handed back by hvplot
    started,        \* history: cells whose execution began, in order
    completed       \* history: cells that returned without raising

vars == << pc, exception, provider, requests_log, response, temp_creds_req,
           session, rio_env, gdal_env, s3_url, opened_with, da, da_red, plot,
           started, completed >>

-----------------------------------------------------------------------------
(* Bounds of the model *)

MaxBands == 2
MaxSide == 2
MaxSeed == 1

-----------------------------------------------------------------------------
(* Python values *)

None == [type |-> "NoneType"]

NoException == "NoException"

Range(s) == { s[i] : i \in 1..Len(s) }

RemoveAt(s, k) == [ i \in 1..(Len(s) - 1) |-> IF i < k THEN s[i] ELSE s[i + 1] ]

InsertAt(s, k, v) ==
    [ i \in 1..(Len(s) + 1) |-> IF i < k THEN s[i] ELSE IF i = k THEN v ELSE s[i - 1] ]

IndexOf(s, v) == CHOOSE i \in 1..Len(s) : s[i] = v

IsPrefix(s, t) == Len(s) <= Len(t) /\ \A i \in 1..Len(s) : s[i] = t[i]

-----------------------------------------------------------------------------
(* The notebook's constants *)

s3_cred_endpoint ==
    [ podaac   |-> "https://archive.podaac.earthdata.nasa.gov/s3credentials",
      gesdisc  |-> "https://data.gesdisc.earthdata.nasa.gov/s3credentials",
      lpdaac   |-> "https://data.lpdaac.earthdatacloud.nasa.gov/s3credentials",
      ornldaac |-> "https://data.ornldaac.earthdata.nasa.gov/s3credentials",
      ghrcdaac |-> "https://data.ghrc.earthdata.nasa.gov/s3credentials" ]

CallProvider_podaac == "podaac"

\* the literal argument of the call in the notebook
CallProvider == "lpdaac"

\* provider keys a caller of get_temp_creds may pass: the five of the table
\* and two that are not in it
ProviderInputs == DOMAIN s3_cred_endpoint \cup { "nsidc", "LPDAAC" }

S3UrlLiteral ==
    [ scheme |-> "s3",
      bucket |-> "lp-prod-protected",
      key    |-> "HLSL30.020/HLS.L30.T11SQA.2021333T181532.v2.0/HLS.L30.T11SQA.2021333T181532.v2.0.B04.tif" ]

\* the DAAC whose credentials a bucket accepts
BucketOwner(bucket) == IF bucket = "lp-prod-protected" THEN "lpdaac" ELSE "other"

CredKeys == { "accessKeyId", "secretAccessKey", "sessionToken" }

Cells == << "get_temp_creds", "session", "rio_env", "s3_url",
            "open_rasterio", "squeeze", "hvplot", "exit" >>


-----------------------------------------------------------------------------
(* The world the notebook talks to *)

\* a secret issued by the endpoint of DAAC p; S3 honours it while it is live
Tokens(p) == { [issuer |-> p, live |-> l] : l \in BOOLEAN }

\* JSON objects an endpoint may answer with: any subset of the three
\* credential fields (an error document has none of them)
JsonObjects(p) == UNION { [ K -> Tokens(p) ] : K \in SUBSET CredKeys }

Bodies(p) ==
    { [mime |-> "json", fields |-> f] : f \in JsonObjects(p) }
        \cup { [mime |-> "html", fields |-> << >>] }

StatusCodes == { 200, 401, 500 }

\* what the network does with one GET to the endpoint of DAAC p
NetOutcomes(p) ==
    { [kind |-> "response", status |-> st, body |-> b] :
          st \in StatusCodes, b \in Bodies(p) }
        \cup { [kind |-> "ConnectionError", status |-> 0,
                body |-> [mime |-> "html", fields |-> << >>]] }

\* the rasters an S3 object may hold, and whether it can be read at all
S3Objects ==
    { [readable |-> r, bands |-> b, height |-> h, width |-> w, seed |-> sd] :
          r \in BOOLEAN, b \in 1..MaxBands, h \in 1..MaxSide,
          w \in 1..MaxSide, sd \in 0..MaxSeed }

-----------------------------------------------------------------------------
(* Library calls the cells make *)

\* Response.json(): the parsed body, or a decode error; the status is not read
json(resp) ==
    IF resp.body.mime = "json"
    THEN [exc |-> NoException, ret |-> [type |-> "dict", items |-> resp.body.fields]]
    ELSE [exc |-> "JSONDecodeError", ret |-> None]

get_temp_creds_default(p, net) ==
    LET url == IF p \in DOMAIN s3_cred_endpoint
               THEN s3_cred_endpoint[p] ELSE s3_cred_endpoint["lpdaac"]
    IN  IF net.kind = "ConnectionError"
        THEN [exc |-> "ConnectionError", sent |-> << url >>, resp |-> None, ret |-> None]
        ELSE [exc |-> json(net).exc, sent |-> << url >>, resp |-> net,
              ret |-> json(net).ret]

\* def get_temp_creds(provider):
\*     return requests.get(s3_cred_endpoint[provider]).json()
get_temp_creds(p, net) ==
    IF p \notin DOMAIN s3_cred_endpoint
    THEN [exc |-> "KeyError", sent |-> << >>, resp |-> None, ret |-> None]
    ELSE LET url == s3_cred_endpoint[p]
         IN  IF net.kind = "ConnectionError"
             THEN [exc |-> "ConnectionError", sent |-> << url >>,
                   resp |-> None, ret |-> None]
             ELSE [exc |-> json(net).exc, sent |-> << url >>, resp |-> net,
                   ret |-> json(net).ret]

boto3_Session_swapped(creds) ==
    IF \E k \in CredKeys : k \notin DOMAIN creds.items
    THEN [exc |-> "KeyError", ret |-> None]
    ELSE [exc |-> NoException,
          ret |-> [type |-> "Session",
                   aws_access_key_id     |-> creds.items["accessKeyId"],
                   aws_secret_access_key |-> creds.items["sessionToken"],
                   aws_session_token     |-> creds.items["secretAccessKey"],
                   region_name           |-> "us-west-2"]]

\* session = boto3.Session(aws_access_key_id=temp_creds_req['accessKeyId'], ...)
\* a missing key raises KeyError; boto3 itself validates nothing
boto3_Session(creds) ==
    IF \E k \in CredKeys : k \notin DOMAIN creds.items
    THEN [exc |-> "KeyError", ret |-> None]
    ELSE [exc |-> NoException,
          ret |-> [type |-> "Session",
                   aws_access_key_id     |-> creds.items["accessKeyId"],
                   aws_secret_access_key |-> creds.items["secretAccessKey"],
                   aws_session_token     |-> creds.items["sessionToken"],
                   region_name           |-> "us-west-2"]]

\* rio.Env(AWSSession(session), GDAL_DISABLE_READDIR_ON_OPEN='TRUE', ...)
rio_Env(sess) ==
    [ type |-> "Env",
      session |-> sess,
      GDAL_DISABLE_READDIR_ON_OPEN |-> "TRUE",
      GDAL_HTTP_COOKIEFILE |-> "~/cookies.txt",
      GDAL_HTTP_COOKIEJAR  |-> "~/cookies.txt" ]

\* whether S3 serves the object to the holder of the ambient environment
S3Accepts(envs, url) ==
    /\ envs # << >>
    /\ url.scheme = "s3"
    /\ LET s == envs[Len(envs)].session
       IN  \A t \in { s.aws_access_key_id, s.aws_secret_access_key,
                      s.aws_session_token } :
               t.live /\ t.issuer = BucketOwner(url.bucket)

\* the longest axis of a shape
MaxAxis(shape) ==
    IF shape = << >> THEN 0
    ELSE CHOOSE m \in Range(shape) : \A n \in Range(shape) : n <= m

Indices(shape) ==
    { idx \in [ 1..Len(shape) -> 1..MaxAxis(shape) ] :
          \A i \in 1..Len(shape) : idx[i] <= shape[i] }

Pixel(obj, idx) == obj.seed + idx[1] + 2 * idx[2] + 4 * idx[3]

\* rioxarray.open_rasterio(s3_url): a (band, y, x) DataArray of the object,
\* read through the ambient environment
open_rasterio(envs, url, obj) ==
    IF ~ (obj.readable /\ S3Accepts(envs, url))
    THEN [exc |-> "RasterioIOError", ret |-> None]
    ELSE LET shape == << obj.bands, obj.height, obj.width >>
         IN  [exc |-> NoException,
              ret |-> [type   |-> "DataArray",
                       dims   |-> << "band", "y", "x" >>,
                       shape  |-> shape,
                       coords |-> { "band", "y", "x", "spatial_ref" },
                       values |-> [ idx \in Indices(shape) |-> Pixel(obj, idx) ]]]

\* DataArray.squeeze(dim, drop): the dimension must exist and have length 1
squeeze(arr, dim, drop) ==
    IF dim \notin Range(arr.dims)
    THEN [exc |-> "KeyError", ret |-> None]
    ELSE LET k == IndexOf(arr.dims, dim)
             shape == RemoveAt(arr.shape, k)
         IN  IF arr.shape[k] # 1
             THEN [exc |-> "ValueError", ret |-> None]
             ELSE [exc |-> NoException,
                   ret |-> [type   |-> "DataArray",
                            dims   |-> RemoveAt(arr.dims, k),
                            shape  |-> shape,
                            coords |-> IF drop THEN arr.coords \ { dim }
                                               ELSE arr.coords,
                            values |-> [ idx \in Indices(shape) |->
                                           arr.values[InsertAt(idx, k, 1)] ]]]

da_squeeze_keep(arr) == squeeze(arr, "band", FALSE)

\* da.squeeze('band', drop=True)
da_squeeze(arr) == squeeze(arr, "band", TRUE)

\* da_red.hvplot.image(x='x', y='y', cmap='gray', aspect='equal')
hvplot_image(arr, render_ok) ==
    IF ~ ({ "x", "y" } \subseteq Range(arr.dims) /\ render_ok)
    THEN [exc |-> "RenderError", ret |-> None]
    ELSE [exc |-> NoException,
          ret |-> [type |-> "Image", x |-> "x", y |-> "y", cmap |-> "gray",
                   aspect |-> "equal", dims |-> arr.dims, shape |-> arr.shape,
                   coords |-> arr.coords]]

-----------------------------------------------------------------------------
(* The kernel: cells run top to bottom, an exception stops the run *)

NextCell(cell) ==
    IF cell = "exit" THEN "done" ELSE Cells[IndexOf(Cells, cell) + 1]

Runnable_always(cell) == pc = cell /\ Len(started) < Len(Cells) + 1

Runnable(cell) == pc = cell /\ exception = NoException

\* the cell either returns, and the next one is up, or raises
Finish(cell, exc) ==
    /\ started' = Append(started, cell)
    /\ exception' = exc
    /\ completed' = IF exc = NoException THEN Append(completed, cell) ELSE completed
    /\ pc' = IF exc = NoException THEN NextCell(cell) ELSE pc

Assigned(exc, new, old) == IF exc = NoException THEN new ELSE old

-----------------------------------------------------------------------------
(* The cells *)

GetTempCredsCell_retry ==
    /\ pc = "get_temp_creds"
    /\ exception = NoException
    /\ Len(started) < 3
    /\ \E net \in NetOutcomes(provider) :
          LET r == get_temp_creds(provider, net)
          IN  /\ requests_log' = requests_log \o r.sent
              /\ response' = r.resp
              /\ temp_creds_req' = Assigned(r.exc, r.ret, temp_creds_req)
              /\ started' = Append(started, "get_temp_creds")
              /\ exception' = NoException
              /\ completed' = IF r.exc = NoException
                              THEN Append(completed, "get_temp_creds")
                              ELSE completed
              /\ pc' = IF r.exc = NoException THEN "session" ELSE pc
    /\ UNCHANGED << provider, session, rio_env, gdal_env, s3_url, opened_with,
                    da, da_red, plot >>

\* temp_creds_req = get_temp_creds('lpdaac')
GetTempCredsCell ==
    /\ Runnable("get_temp_creds")
    /\ \E net \in NetOutcomes(provider) :
          LET r == get_temp_creds(provider, net)
          IN  /\ requests_log' = requests_log \o r.sent
              /\ response' = r.resp
              /\ temp_creds_req' = Assigned(r.exc, r.ret, temp_creds_req)
              /\ Finish("get_temp_creds", r.exc)
    /\ UNCHANGED << provider, session, rio_env, gdal_env, s3_url, opened_with,
                    da, da_red, plot >>

\* session = boto3.Session(...)
SessionCell ==
    /\ Runnable("session")
    /\ LET r == boto3_Session(temp_creds_req)
       IN  /\ session' = Assigned(r.exc, r.ret, session)
           /\ Finish("session", r.exc)
    /\ UNCHANGED << provider, requests_log, response, temp_creds_req, rio_env,
                    gdal_env, s3_url, opened_with, da, da_red, plot >>

RioEnvCell_noenter ==
    /\ Runnable("rio_env")
    /\ rio_env' = rio_Env(session)
    /\ gdal_env' = gdal_env
    /\ Finish("rio_env", NoException)
    /\ UNCHANGED << provider, requests_log, response, temp_creds_req, session,
                    s3_url, opened_with, da, da_red, plot >>

\* rio_env = rio.Env(AWSSession(session), ...); rio_env.__enter__()
RioEnvCell ==
    /\ Runnable("rio_env")
    /\ rio_env' = rio_Env(session)
    /\ gdal_env' = Append(gdal_env, rio_Env(session))
    /\ Finish("rio_env", NoException)
    /\ UNCHANGED << provider, requests_log, response, temp_creds_req, session,
                    s3_url, opened_with, da, da_red, plot >>

\* s3_url = 's3://lp-prod-protected/...B04.tif'
S3UrlCell ==
    /\ Runnable("s3_url")
    /\ s3_url' = S3UrlLiteral
    /\ Finish("s3_url", NoException)
    /\ UNCHANGED << provider, requests_log, response, temp_creds_req, session,
                    rio_env, gdal_env, opened_with, da, da_red, plot >>

\* da = rioxarray.open_rasterio(s3_url)
OpenRasterioCell ==
    /\ Runnable("open_rasterio")
    /\ \E obj \in S3Objects :
          LET r == open_rasterio(gdal_env, s3_url, obj)
          IN  /\ da' = Assigned(r.exc, r.ret, da)
              /\ Finish("open_rasterio", r.exc)
    /\ opened_with' = gdal_env
    /\ UNCHANGED << provider, requests_log, response, temp_creds_req, session,
                    rio_env, gdal_env, s3_url, da_red, plot >>

\* da_red = da.squeeze('band', drop=True)
SqueezeCell ==
    /\ Runnable("squeeze")
    /\ LET r == da_squeeze(da)
       IN  /\ da_red' = Assigned(r.exc, r.ret, da_red)
           /\ Finish("squeeze", r.exc)
    /\ UNCHANGED << provider, requests_log, response, temp_creds_req, session,
                    rio_env, gdal_env, s3_url, opened_with, da, plot >>

HvplotCell_da ==
    /\ Runnable("hvplot")
    /\ \E render_ok \in BOOLEAN :
          LET r == hvplot_image(da, render_ok)
          IN  /\ plot' = Assigned(r.exc, r.ret, plot)
              /\ Finish("hvplot", r.exc)
    /\ UNCHANGED << provider, requests_log, response, temp_creds_req, session,
                    rio_env, gdal_env, s3_url, opened_with, da, da_red >>

\* da_red.hvplot.image(x='x', y='y', cmap='gray', aspect='equal')
HvplotCell ==
    /\ Runnable("hvplot")
    /\ \E render_ok \in BOOLEAN :
          LET r == hvplot_image(da_red, render_ok)
          IN  /\ plot' = Assigned(r.exc, r.ret, plot)
              /\ Finish("hvplot", r.exc)
    /\ UNCHANGED << provider, requests_log, response, temp_creds_req, session,
                    rio_env, gdal_env, s3_url, opened_with, da, da_red >>

ExitCell_finally ==
    /\ pc \in { "open_rasterio", "squeeze", "hvplot", "exit" }
    /\ pc = "exit" \/ exception # NoException
    /\ gdal_env # << >>
    /\ gdal_env' = SubSeq(gdal_env, 1, Len(gdal_env) - 1)
    /\ started' = Append(started, "exit")
    /\ completed' = Append(completed, "exit")
    /\ pc' = "done"
    /\ UNCHANGED << exception, provider, requests_log, response, temp_creds_req,
                    session, rio_env, s3_url, opened_with, da, da_red, plot >>

\* rio_env.__exit__()
ExitCell ==
    /\ Runnable("exit")
    /\ gdal_env' = SubSeq(gdal_env, 1, Len(gdal_env) - 1)
    /\ Finish("exit", NoException)
    /\ UNCHANGED << provider, requests_log, response, temp_creds_req, session,
                    rio_env, s3_url, opened_with, da, da_red, plot >>

-----------------------------------------------------------------------------
(* Specifications *)

InitWith(p) ==
    /\ pc = "get_temp_creds"
    /\ exception = NoException
    /\ provider = p
    /\ requests_log = << >>
    /\ response = None
    /\ temp_creds_req = None
    /\ session = None
    /\ rio_env = None
    /\ gdal_env = << >>
    /\ s3_url = None
    /\ opened_with = << >>
    /\ da = None
    /\ da_red = None
    /\ plot = None
    /\ started = << >>
    /\ completed = << >>

\* the notebook as written
Init == InitWith(CallProvider)

\* the notebook with get_temp_creds called on any provider key
InitAnyProvider == \E p \in ProviderInputs : InitWith(p)

Next ==
    \/ GetTempCredsCell
    \/ SessionCell
    \/ RioEnvCell
    \/ S3UrlCell
    \/ OpenRasterioCell
    \/ SqueezeCell
    \/ HvplotCell
    \/ ExitCell

Spec == Init /\ [][Next]_vars

\* Run All: the kernel executes the next cell as long as there is one to run
FairSpec == Spec /\ WF_vars(Next)

SpecAnyProvider == InitAnyProvider /\ [][Next]_vars

-----------------------------------------------------------------------------
(* Properties *)

Ran(cell) == cell \in Range(started)

Returned(cell) == cell \in Range(completed)

Failed == exception # NoException

SessionTokens(s) ==
    { s.aws_access_key_id, s.aws_secret_access_key, s.aws_session_token }

C1_Completed ==
    /\ pc = "done"
    /\ exception = NoException
    /\ completed = Cells
    /\ plot # None
    /\ Len(plot.dims) = 2
    /\ Range(plot.dims) = { "x", "y" }
    /\ gdal_env = << >>

\* C1: a run in which no cell raises eventually completes every cell, in
\* order, hands the Visualizer a 2-D array whose dimensions are x and y, and
\* ends with the access environment released.
C1_EndToEndSuccess == ([](exception = NoException)) => <>C1_Completed

C1_Witness == C1_Completed /\ response.status = 200

\* C2: the cells start in notebook order, each only after the one before it
\* returned, none twice, and at most one HTTP GET is issued, also when a
\* cell has raised.
C2_StrictlyForward ==
    /\ IsPrefix(started, Cells)
    /\ IsPrefix(completed, started)
    /\ Len(started) - Len(completed) = (IF Failed THEN 1 ELSE 0)
    /\ Len(requests_log) <= 1
    /\ pc = (IF Len(completed) = Len(Cells) THEN "done"
             ELSE Cells[Len(completed) + 1])

C2_Witness ==
    /\ Failed
    /\ started = SubSeq(Cells, 1, 6)
    /\ completed = SubSeq(Cells, 1, 5)
    /\ Len(requests_log) = 1

\* C3: the access environment is active exactly after __enter__ returned and
\* before __exit__ returned, it is never entered twice, and open_rasterio
\* only ever ran under the active environment bound to the session that was
\* built from the fetched credentials.
C3_EnvActiveBetweenEnterAndExit ==
    /\ (gdal_env # << >>) <=> (Returned("rio_env") /\ ~ Returned("exit"))
    /\ Len(gdal_env) <= 1
    /\ Ran("open_rasterio") =>
          /\ Len(opened_with) = 1
          /\ opened_with[1] = rio_env
          /\ opened_with[1].session = session
          /\ session.aws_access_key_id = response.body.fields["accessKeyId"]
          /\ session.aws_secret_access_key = response.body.fields["secretAccessKey"]
          /\ session.aws_session_token = response.body.fields["sessionToken"]

C3_Witness == Returned("open_rasterio") /\ gdal_env # << >>

\* C4: a non-200 answer or a body that is not JSON makes get_temp_creds
\* raise: no credential object is assigned and the Session Builder never
\* starts.
C4_BadResponseRaisesInFetcher ==
    (response # None /\ (response.status # 200 \/ response.body.mime # "json"))
        => (Failed /\ temp_creds_req = None /\ ~ Ran("session"))

\* C5: once a cell has raised nothing else happens: no later cell, no
\* earlier cell again, no recovery, no cleanup.
C5_FailureIsTerminal == [][Failed => UNCHANGED vars]_vars

C5_Witness == Failed /\ pc = "hvplot" /\ gdal_env # << >>

C6_SessionBuiltFromCredentials ==
    /\ session # None =>
          /\ Len(requests_log) = 1
          /\ temp_creds_req.items = response.body.fields
          /\ session = [ type |-> "Session",
                         aws_access_key_id     |-> temp_creds_req.items["accessKeyId"],
                         aws_secret_access_key |-> temp_creds_req.items["secretAccessKey"],
                         aws_session_token     |-> temp_creds_req.items["sessionToken"],
                         region_name           |-> "us-west-2" ]
    /\ Cardinality({ i \in 1..Len(started) : started[i] = "session" }) <= 1
    /\ Cardinality({ i \in 1..Len(started) : started[i] = "rio_env" }) <= 1
    /\ rio_env # None => rio_env.session = session
    /\ \A i \in 1..Len(gdal_env) : gdal_env[i].session = session

\* C6: the session is built once, from the three fields of the one fetched
\* credential object and the region us-west-2, is used once to build the
\* access environment, and no later cell changes it.
C6_SessionImmutable ==
    /\ []C6_SessionBuiltFromCredentials
    /\ [][session # None => session' = session]_vars

C6_Witness == pc = "done" /\ session # None /\ rio_env # None

\* C7: whenever open_rasterio ran, the credentials bound to the ambient
\* environment came from the endpoint of the DAAC that owns the bucket of
\* the S3 URL (lpdaac for lp-prod-protected), and a raster was only ever
\* obtained with that DAAC's credentials.
C7_ProviderScopedCredentials ==
    Ran("open_rasterio") =>
        /\ BucketOwner(s3_url.bucket) = "lpdaac"
        /\ requests_log = << s3_cred_endpoint[BucketOwner(s3_url.bucket)] >>
        /\ Len(opened_with) = 1
        /\ \A t \in SessionTokens(opened_with[1].session) :
               t.issuer = BucketOwner(s3_url.bucket)
        /\ \A p \in DOMAIN s3_cred_endpoint \ { BucketOwner(s3_url.bucket) } :
               \A f \in [ CredKeys -> Tokens(p) ] :
                   ~ S3Accepts(<< rio_Env(boto3_Session([type |-> "dict",
                                                         items |-> f]).ret) >>,
                               s3_url)

C7_Witness == Returned("open_rasterio") /\ da # None

\* C8: when open_rasterio, squeeze or the plot raises after __enter__, the
\* run ends with the environment still active and __exit__ never run; the
\* environment is released only when all three returned.
C8_EnvLeaksOnFailure ==
    /\ (Failed /\ Returned("rio_env")) => (gdal_env # << >> /\ ~ Ran("exit"))
    /\ Ran("exit") =>
          (~ Failed /\ \A c \in { "open_rasterio", "squeeze", "hvplot" } : Returned(c))
    /\ (Returned("rio_env") /\ gdal_env = << >>) => pc = "done"

C8_Witness ==
    /\ Failed
    /\ pc \in { "open_rasterio", "squeeze", "hvplot" }
    /\ gdal_env # << >>
    /\ da # None

C9_SqueezeResult ==
    /\ Returned("squeeze") =>
          /\ da.dims = << "band", "y", "x" >>
          /\ da.shape[1] = 1
          /\ Len(da_red.dims) = 2
          /\ Range(da_red.dims) = { "x", "y" }
          /\ \A d \in { "x", "y" } :
                da_red.shape[IndexOf(da_red.dims, d)] = da.shape[IndexOf(da.dims, d)]
          /\ "band" \notin da_red.coords
          /\ da_red.coords = da.coords \ { "band" }
          /\ DOMAIN da_red.values = (1..da.shape[2]) \X (1..da.shape[3])
          /\ \A i \in 1..da.shape[2], j \in 1..da.shape[3] :
                da_red.values[<< i, j >>] = da.values[<< 1, i, j >>]
    /\ (Ran("squeeze") /\ da.shape[1] # 1) =>
          (da_red = None /\ exception = "ValueError" /\ plot = None)

\* C9: squeeze('band', drop=True) of a (band, y, x) array with one band gives
\* the 2-D array over x and y with the same sizes and values and no band
\* dimension or coordinate, leaves da as it was, and gives no array at all
\* when there is more than one band.
C9_DimensionReducer ==
    /\ []C9_SqueezeResult
    /\ [][pc = "squeeze" => da' = da]_vars

C9_Witness ==
    /\ Returned("squeeze")
    /\ da_red.shape = << MaxSide, MaxSide >>
    /\ da.shape = << 1, MaxSide, MaxSide >>

\* C10: get_temp_creds(provider) sends its one GET to the URL the table maps
\* the provider key to; for a key that is not in the table it raises before
\* any request is sent, and no session or environment is ever created.
C10_ProviderSelection ==
    /\ Len(requests_log) <= 1
    /\ started = << >> => requests_log = << >>
    /\ (started # << >> /\ provider \in DOMAIN s3_cred_endpoint) =>
          requests_log = << s3_cred_endpoint[provider] >>
    /\ (started # << >> /\ provider \notin DOMAIN s3_cred_endpoint) =>
          /\ exception = "KeyError"
          /\ requests_log = << >>
          /\ response = None
          /\ session = None
          /\ rio_env = None
          /\ gdal_env = << >>

C10_Witness == provider = "nsidc" /\ exception = "KeyError"

=============================================================================
